---- MODULE Spec2Model ----
(***************************************************************************)
(* A model of sheetRearranger.js: the spreadsheet script that turns the    *)
(* WJEC item level export (fixed columns followed by repeated              *)
(* QuestionNum / Mark / MaxMark triplets) into the "Processed Data" sheet  *)
(* with two header rows, and then installs the conditional format rules.   *)
(*                                                                         *)
(* A cell value is a JavaScript string or number.  Strings are sequences   *)
(* of one-character strings so that toString, trim, toLowerCase, includes  *)
(* and parseFloat are computed character by character.  A JavaScript       *)
(* object used as a lookup table is a function whose domain is the set of  *)
(* its own property keys; a key is the string form of the value used as    *)
(* the index (the number 1 and the text "1" name the same property).       *)
(* Cell texts range over ordinary cell contents; names of the members of   *)
(* Object.prototype are not among them.                                    *)
(***************************************************************************)
EXTENDS Integers, Sequences, FiniteSets, TLC

VARIABLES
    menu,         \* the items onOpen has added to the "Custom Scripts" menu
    sourceData,   \* sourceSheet.getDataRange().getValues(): rows of cells
    outputSheet,  \* the sheet named "Processed Data"
    alert,        \* the text of the alert shown by the last run, "" before any run
    calls         \* the operations the last run performed on the output sheet

vars == <<menu, sourceData, outputSheet, alert, calls>>

(***************************************************************************)
(* Bounds of the model.                                                    *)
(***************************************************************************)
MaxRows == 3        \* data rows below the header row
MaxTriplets == 3    \* triplets in the header row
MaxSlots == 4       \* triplets in the whole table (rows times triplets per row)
MaxColumns == 4     \* columns of the tables whose header row varies

(***************************************************************************)
(* JavaScript values and the string primitives the script uses.            *)
(***************************************************************************)
Str(s) == [t |-> "string", s |-> s, n |-> 0]
Num(n) == [t |-> "number", s |-> <<>>, n |-> n]

Digit == <<"0", "1", "2", "3", "4", "5", "6", "7", "8", "9">>

UpperCaseLetters ==
    <<"A", "B", "C", "D", "E", "F", "G", "H", "I", "J", "K", "L", "M",
      "N", "O", "P", "Q", "R", "S", "T", "U", "V", "W", "X", "Y", "Z">>

LowerCaseLetters ==
    <<"a", "b", "c", "d", "e", "f", "g", "h", "i", "j", "k", "l", "m",
      "n", "o", "p", "q", "r", "s", "t", "u", "v", "w", "x", "y", "z">>

WhiteSpace == {" "}

RECURSIVE NatToString(_)
NatToString(n) ==
    IF n < 10 THEN <<Digit[n + 1]>>
    ELSE NatToString(n \div 10) \o <<Digit[(n % 10) + 1]>>

\* Number.prototype.toString for an integer
NumberToString(n) ==
    IF n < 0 THEN <<"-">> \o NatToString(-n) ELSE NatToString(n)

\* value.toString()
toString(v) == IF v.t = "string" THEN v.s ELSE NumberToString(v.n)

RECURSIVE TrimStart(_)
TrimStart(s) ==
    IF s # <<>> /\ Head(s) \in WhiteSpace THEN TrimStart(Tail(s)) ELSE s

RECURSIVE TrimEnd(_)
TrimEnd(s) ==
    IF s # <<>> /\ s[Len(s)] \in WhiteSpace
    THEN TrimEnd(SubSeq(s, 1, Len(s) - 1))
    ELSE s

\* String.prototype.trim
Trim(s) == TrimEnd(TrimStart(s))

\* the lower case form of each upper case letter
LowerOf ==
    [c \in {UpperCaseLetters[k] : k \in 1..26} |->
        LowerCaseLetters[CHOOSE k \in 1..26 : UpperCaseLetters[k] = c]]

LowerChar(c) == IF c \in DOMAIN LowerOf THEN LowerOf[c] ELSE c

\* String.prototype.toLowerCase
ToLowerCase(s) == [k \in 1..Len(s) |-> LowerChar(s[k])]

\* String.prototype.includes
Includes(s, sub) ==
    \E k \in 0..(Len(s) - Len(sub)) : SubSeq(s, k + 1, k + Len(sub)) = sub

\* ToBoolean of a cell value: "" and 0 are falsy
Truthy(v) == IF v.t = "string" THEN v.s # <<>> ELSE v.n # 0

\* the property key a value names when it indexes an object
PropertyKey(v) == toString(v)

\* row[j] with the zero-based index of the script
Cell(row, j) == row[j + 1]

\* array.slice(0, n)
SliceTo(row, n) == SubSeq(row, 1, n)

sQuestionNum == <<"q", "u", "e", "s", "t", "i", "o", "n", "n", "u", "m">>
sMaxMarks == <<"m", "a", "x", " ", "m", "a", "r", "k", "s">>
Blank == Str(<<>>)

(***************************************************************************)
(* rearrangeData, lines 16-191.                                            *)
(***************************************************************************)
AlertNotEnough == "The active sheet does not contain enough data."
AlertNoQuestionNum == "The header row does not contain a \"QuestionNum\" column."
AlertNotMultiple == "The number of columns after fixed columns is not a multiple of 3."
AlertNoRows == "No valid data rows found to process."
AlertComplete == "Data rearrangement and conditional formatting complete!"

RECURSIVE FindFrom(_, _)
FindFrom(headers, i) ==
    IF i >= Len(headers) THEN -1
    ELSE IF ToLowerCase(Trim(toString(Cell(headers, i)))) = sQuestionNum THEN i
    ELSE FindFrom(headers, i + 1)

\* the zero-based index of the first "QuestionNum" header, or -1
findFirstQuestionNumColumn(headers) == FindFrom(headers, 0)

\* SkipRow without toLowerCase: the caption is matched case-sensitively
SkipRowCaseSensitive(row) ==
    LET firstCell == Trim(toString(Cell(row, 0)))
    IN  Includes(firstCell, sMaxMarks) \/ firstCell = <<>>

\* lines 84-85 and 140-141: the rows both loops pass over
SkipRow(row) ==
    LET firstCell == ToLowerCase(Trim(toString(Cell(row, 0))))
    IN  Includes(firstCell, sMaxMarks) \/ firstCell = <<>>

\* lines 99 and 161: the triplets whose identifier is used
UseIdentifier(qIdentifier) ==
    Truthy(qIdentifier) /\ Trim(toString(qIdentifier)) # <<>>

EmptyCatalog == [questionIdentifiers |-> <<>>, questionMaxMarks |-> <<>>]

\* CatalogTriplet with the max mark stored on every occurrence: the last wins
CatalogTripletLastWins(cat, qIdentifier, maxMark) ==
    IF UseIdentifier(qIdentifier)
    THEN [questionIdentifiers |->
              IF PropertyKey(qIdentifier) \in DOMAIN cat.questionMaxMarks
              THEN cat.questionIdentifiers
              ELSE Append(cat.questionIdentifiers, qIdentifier),
          questionMaxMarks |->
              (PropertyKey(qIdentifier) :> maxMark) @@ cat.questionMaxMarks]
    ELSE cat

\* lines 99-105: one triplet of the first loop
CatalogTriplet(cat, qIdentifier, maxMark) ==
    IF UseIdentifier(qIdentifier)
       /\ PropertyKey(qIdentifier) \notin DOMAIN cat.questionMaxMarks
    THEN [questionIdentifiers |-> Append(cat.questionIdentifiers, qIdentifier),
          questionMaxMarks |->
              (PropertyKey(qIdentifier) :> maxMark) @@ cat.questionMaxMarks]
    ELSE cat

RECURSIVE CatalogRow(_, _, _, _, _)
CatalogRow(cat, row, fixedColumns, tripletCount, t) ==
    IF t >= tripletCount THEN cat
    ELSE CatalogRow(
             CatalogTriplet(cat, Cell(row, fixedColumns + t * 3),
                            Cell(row, fixedColumns + t * 3 + 2)),
             row, fixedColumns, tripletCount, t + 1)

\* lines 79-107: the first loop over the data rows
RECURSIVE CatalogRows(_, _, _, _, _)
CatalogRows(cat, data, fixedColumns, tripletCount, i) ==
    IF i >= Len(data) THEN cat
    ELSE IF SkipRow(Cell(data, i))
    THEN CatalogRows(cat, data, fixedColumns, tripletCount, i + 1)
    ELSE CatalogRows(CatalogRow(cat, Cell(data, i), fixedColumns, tripletCount, 0),
                     data, fixedColumns, tripletCount, i + 1)

\* MarksTriplet that keeps the mark already stored: the first wins
MarksTripletKeepFirst(marksMap, qIdentifier, mark) ==
    IF UseIdentifier(qIdentifier) /\ PropertyKey(qIdentifier) \notin DOMAIN marksMap
    THEN (PropertyKey(qIdentifier) :> mark) @@ marksMap
    ELSE marksMap

\* lines 161-163: one triplet of the second loop
MarksTriplet(marksMap, qIdentifier, mark) ==
    IF UseIdentifier(qIdentifier)
    THEN (PropertyKey(qIdentifier) :> mark) @@ marksMap
    ELSE marksMap

\* lines 149-164: marksMap of one row
RECURSIVE MarksMap(_, _, _, _, _)
MarksMap(marksMap, row, fixedColumns, tripletCount, t) ==
    IF t >= tripletCount THEN marksMap
    ELSE MarksMap(
             MarksTriplet(marksMap, Cell(row, fixedColumns + t * 3),
                          Cell(row, fixedColumns + t * 3 + 1)),
             row, fixedColumns, tripletCount, t + 1)

\* MarkFor that fills a missing mark with 0 instead of ""
MarkForZero(marksMap, q) ==
    IF PropertyKey(q) \in DOMAIN marksMap THEN marksMap[PropertyKey(q)] ELSE Num(0)

\* line 167: the cell of one question in one row
MarkFor(marksMap, q) ==
    IF PropertyKey(q) \in DOMAIN marksMap THEN marksMap[PropertyKey(q)] ELSE Blank

\* OutputRow that lists only the marks the row has, in catalog order
OutputRowPresentOnly(row, fixedColumns, tripletCount, questionIdentifiers) ==
    LET fixedData == SliceTo(row, fixedColumns)
        marksMap == MarksMap(<<>>, row, fixedColumns, tripletCount, 0)
        present == SelectSeq(questionIdentifiers,
                             LAMBDA q : PropertyKey(q) \in DOMAIN marksMap)
    IN  fixedData \o [k \in 1..Len(present) |-> marksMap[PropertyKey(present[k])]]

\* lines 146-170: the output row of one data row
OutputRow(row, fixedColumns, tripletCount, questionIdentifiers) ==
    LET fixedData == SliceTo(row, fixedColumns)
        marksMap == MarksMap(<<>>, row, fixedColumns, tripletCount, 0)
        marks == [k \in 1..Len(questionIdentifiers) |->
                      MarkFor(marksMap, questionIdentifiers[k])]
    IN  fixedData \o marks

\* lines 136-174: the second loop over the data rows
RECURSIVE DataRows(_, _, _, _, _, _)
DataRows(outputRows, data, fixedColumns, tripletCount, questionIdentifiers, i) ==
    IF i >= Len(data) THEN outputRows
    ELSE IF SkipRow(Cell(data, i))
    THEN DataRows(outputRows, data, fixedColumns, tripletCount,
                  questionIdentifiers, i + 1)
    ELSE DataRows(Append(outputRows,
                         OutputRow(Cell(data, i), fixedColumns, tripletCount,
                                   questionIdentifiers)),
                  data, fixedColumns, tripletCount, questionIdentifiers, i + 1)

\* lines 119-122
HeaderRow1(headerRow, fixedColumns, cat) ==
    SliceTo(headerRow, fixedColumns) \o cat.questionIdentifiers

\* lines 125-128
HeaderRow2(fixedColumns, cat) ==
    [k \in 1..fixedColumns |-> Blank]
    \o [k \in 1..Len(cat.questionIdentifiers) |->
            cat.questionMaxMarks[PropertyKey(cat.questionIdentifiers[k])]]

\* lines 131-174
OutputRows(data, fixedColumns, tripletCount, cat) ==
    DataRows(<<HeaderRow1(Cell(data, 0), fixedColumns, cat),
               HeaderRow2(fixedColumns, cat)>>,
             data, fixedColumns, tripletCount, cat.questionIdentifiers, 1)

(***************************************************************************)
(* The output sheet as the host keeps it: the values are the cells handed  *)
(* to setValues, the rules those handed to setConditionalFormatRules.      *)
(***************************************************************************)
NoSheet == [exists |-> FALSE, values |-> <<>>, rules |-> <<>>]

HasContent(row) == \E k \in 1..Len(row) : row[k] # Blank

\* Sheet.getLastRow: the position of the last row that has content
getLastRow(values) ==
    IF \E r \in 1..Len(values) : HasContent(values[r])
    THEN CHOOSE r \in 1..Len(values) :
             /\ HasContent(values[r])
             /\ \A r2 \in (r + 1)..Len(values) : ~HasContent(values[r2])
    ELSE 0

(***************************************************************************)
(* columnToLetter, lines 198-206.                                          *)
(***************************************************************************)
RECURSIVE ColumnLoop(_, _)
ColumnLoop(column, letter) ==
    IF column > 0
    THEN LET temp == (column - 1) % 26
         IN  ColumnLoop((column - temp - 1) \div 26,
                        <<UpperCaseLetters[temp + 1]>> \o letter)
    ELSE letter

columnToLetter(column) == ColumnLoop(column, <<>>)

(***************************************************************************)
(* applyConditionalFormatting, lines 217-267.                              *)
(***************************************************************************)
NaN == [nan |-> TRUE, n |-> 0]

\* the value of each decimal digit
DigitValueOf ==
    [c \in {Digit[k] : k \in 1..10} |-> (CHOOSE k \in 1..10 : Digit[k] = c) - 1]

DigitValue(c) == DigitValueOf[c]

IsDigit(c) == c \in DOMAIN DigitValueOf

RECURSIVE ParseDigits(_, _)
ParseDigits(s, acc) ==
    IF s # <<>> /\ IsDigit(Head(s))
    THEN ParseDigits(Tail(s), acc * 10 + DigitValue(Head(s)))
    ELSE acc

\* parseFloat on the cell values of the model: leading white space is
\* dropped, an optional sign and the longest run of digits are read, and
\* whatever follows the digits is ignored; no digit gives NaN
parseFloat(v) ==
    LET s == TrimStart(toString(v))
        negative == s # <<>> /\ Head(s) = "-"
        signed == s # <<>> /\ Head(s) \in {"-", "+"}
        body == IF signed THEN Tail(s) ELSE s
    IN  IF body # <<>> /\ IsDigit(Head(body))
        THEN [nan |-> FALSE,
              n |-> IF negative THEN -ParseDigits(body, 0) ELSE ParseDigits(body, 0)]
        ELSE NaN

\* (numericMaxMark / 2).toString() for a positive integer
HalfToString(m) ==
    IF m % 2 = 0 THEN NatToString(m \div 2)
    ELSE NatToString(m \div 2) \o <<".", "5">>

\* lines 244-245
RangeA1(columnLetter, lastRow) ==
    columnLetter \o <<"3", ":">> \o columnLetter \o NumberToString(lastRow)

\* lines 248-253
ColorScaleRule(numericMaxMark, range) ==
    [type |-> "gradient",
     minValue |-> <<"0">>,
     midValue |-> HalfToString(numericMaxMark),
     maxValue |-> NumberToString(numericMaxMark),
     text |-> <<>>,
     range |-> range]

\* lines 257-261
NValueRule(range) ==
    [type |-> "textEqualTo",
     minValue |-> <<>>,
     midValue |-> <<>>,
     maxValue |-> <<>>,
     text |-> <<"N">>,
     range |-> range]

\* lines 234-238: the columns that get rules
ValidMaxMark(maxMark) ==
    ~parseFloat(maxMark).nan /\ parseFloat(maxMark).n > 0

\* lines 228-262: the rules of the i-th question column
ColumnRules(values, fixedColumns, lastRow, i) ==
    LET colIndex == fixedColumns + 1 + i
        maxMark == values[2][colIndex]
        range == RangeA1(columnToLetter(colIndex), lastRow)
    IN  IF ValidMaxMark(maxMark)
        THEN <<ColorScaleRule(parseFloat(maxMark).n, range), NValueRule(range)>>
        ELSE <<>>

RECURSIVE FormatLoop(_, _, _, _, _, _)
FormatLoop(rules, values, fixedColumns, questionCount, lastRow, i) ==
    IF i >= questionCount THEN rules
    ELSE FormatLoop(rules \o ColumnRules(values, fixedColumns, lastRow, i),
                    values, fixedColumns, questionCount, lastRow, i + 1)

\* the rule set applyConditionalFormatting installs on the sheet
applyConditionalFormatting(values, fixedColumns, questionCount) ==
    FormatLoop(<<>>, values, fixedColumns, questionCount, getLastRow(values), 0)

(***************************************************************************)
(* The whole run of rearrangeData on the active sheet's data: the state    *)
(* of the output sheet, the alert and the calls made on the output sheet.  *)
(***************************************************************************)
\* the host's error dialog when getRange is asked for a range of no columns
\* (no fixed column and an empty catalog); the run stops there
AlertException == "Exception: The number of columns in the range must be at least 1."

\* lines 110-116
CreateOrClear(sheet) ==
    IF ~sheet.exists
    THEN [sheet |-> [exists |-> TRUE, values |-> <<>>, rules |-> <<>>],
          calls |-> <<"insertSheet">>]
    ELSE [sheet |-> [exists |-> TRUE, values |-> <<>>, rules |-> <<>>],
          calls |-> <<"clearContents", "clearConditionalFormatRules">>]

\* Aborted with the output sheet created or cleared before the checks
AbortedAfterClear(sheet, message) ==
    [sheet |-> CreateOrClear(sheet).sheet, alert |-> message,
     calls |-> CreateOrClear(sheet).calls]

\* lines 32-33, 57-58 and 68-69: an alert, then return
Aborted(sheet, message) == [sheet |-> sheet, alert |-> message, calls |-> <<>>]

\* lines 74-190, reached once the layout checks have passed
Process(data, sheet, fixedColumns, tripletCount) ==
    LET cat == CatalogRows(EmptyCatalog, data, fixedColumns, tripletCount, 1)
        cleared == CreateOrClear(sheet)
        outputRows == OutputRows(data, fixedColumns, tripletCount, cat)
        rules == applyConditionalFormatting(outputRows, fixedColumns,
                                            Len(cat.questionIdentifiers))
    IN  IF Len(outputRows) > 0
        THEN IF Len(outputRows[1]) = 0
             THEN \* getRange(1, 1, rows, 0) throws
                  [sheet |-> cleared.sheet, alert |-> AlertException,
                   calls |-> cleared.calls]
             ELSE [sheet |-> [exists |-> TRUE, values |-> outputRows,
                              rules |-> rules],
                   alert |-> AlertComplete,
                   calls |-> cleared.calls \o <<"setValues",
                                 "setConditionalFormatRules", "autoResizeColumns">>]
        ELSE [sheet |-> cleared.sheet, alert |-> AlertNoRows, calls |-> cleared.calls]

\* lines 16-191
rearrangeData(data, sheet) ==
    IF Len(data) < 2 THEN Aborted(sheet, AlertNotEnough)
    ELSE LET headerRow == Cell(data, 0)
             fixedColumnsIndex == findFirstQuestionNumColumn(headerRow)
             remainingColumns == Len(headerRow) - fixedColumnsIndex
         IN  IF fixedColumnsIndex = -1 THEN Aborted(sheet, AlertNoQuestionNum)
             ELSE IF remainingColumns % 3 # 0 THEN Aborted(sheet, AlertNotMultiple)
             ELSE Process(data, sheet, fixedColumnsIndex, remainingColumns \div 3)

(***************************************************************************)
(* Actions.                                                                *)
(***************************************************************************)
MenuItem == [caption |-> "Rearrange Data", functionName |-> "rearrangeData"]

\* onOpen, lines 4-9
OnOpen ==
    /\ menu' = menu \cup {MenuItem}
    /\ UNCHANGED <<sourceData, outputSheet, alert, calls>>

\* the user picks "Rearrange Data" from the menu: one run of rearrangeData
RearrangeData ==
    /\ MenuItem \in menu
    /\ LET run == rearrangeData(sourceData, outputSheet)
       IN  /\ outputSheet' = run.sheet
           /\ alert' = run.alert
           /\ calls' = run.calls
    /\ UNCHANGED <<menu, sourceData>>

Next == OnOpen \/ RearrangeData

(***************************************************************************)
(* The source tables the runs start from.                                  *)
(***************************************************************************)
tID == <<"I", "D">>
tQuestionNum == <<"Q", "u", "e", "s", "t", "i", "o", "n", "N", "u", "m">>
tName == <<"N", "a", "m", "e">>
tMark == <<"M", "a", "r", "k">>
tMaxMark == <<"M", "a", "x", "M", "a", "r", "k">>
tS1 == <<"s", "1">>
tMaxMarksRow == <<"M", "a", "x", " ", "m", "a", "r", "k", "s">>
tQ1 == <<"Q", "1">>
tQ2 == <<"Q", "2">>

RECURSIVE Flatten(_)
Flatten(rows) == IF rows = <<>> THEN <<>> ELSE Head(rows) \o Flatten(Tail(rows))

TripletHeader == <<Str(tQuestionNum), Str(tMark), Str(tMaxMark)>>

\* two fixed columns followed by tripletCount triplets
Header(tripletCount) ==
    <<Str(tID), Str(tName)>> \o Flatten([t \in 1..tripletCount |-> TripletHeader])

\* the name in the second fixed column of data row r
NameAt(r) == Str(<<"n", Digit[r + 1]>>)

\* the mark of triplet t of data row r: a different number in every cell
MarkAt(r, t) == Num(r * 10 + t)

\* data row r, with the given first cell and a (questionId, maxMark) per triplet
DataRow(r, first, choice) ==
    <<first, NameAt(r)>> \o Flatten([t \in 1..Len(choice) |->
                             <<choice[t][1], MarkAt(r, t), choice[t][2]>>])

Table(firsts, choices) ==
    <<Header(Len(choices[1]))>>
    \o [r \in 1..Len(firsts) |-> DataRow(r, firsts[r], choices[r])]

\* data is a table of 1..MaxRows data rows and 1..MaxTriplets triplets per
\* row, with at most MaxSlots triplets in all
IsTable(data, FirstCells, Choices) ==
    \E rows \in 1..MaxRows, triplets \in 1..MaxTriplets :
        /\ rows * triplets <= MaxSlots
        /\ \E firsts \in [1..rows -> FirstCells],
              choices \in [1..rows -> [1..triplets -> Choices]] :
               data = Table(firsts, choices)

tQ3 == <<"Q", "3">>
tOne == <<"1">>
tSpace == <<" ">>
tTotalMaxMarks ==
    <<"T", "o", "t", "a", "l", " ", "M", "A", "X", " ", "m", "a", "r", "k", "s", ":">>
tPaddedQuestionNum ==
    <<" ", "q", "u", "e", "s", "t", "i", "o", "n", "N", "U", "M", " ">>
tNA == <<"N", "/", "A">>
t5x == <<"5", "x">>
tTen == <<"1", "0">>
tOld == <<"o", "l", "d">>

\* a "Processed Data" sheet left by an earlier session
StaleSheet ==
    [exists |-> TRUE,
     values |-> <<<<Str(tOld)>>>>,
     rules |-> <<NValueRule(<<"A", "3", ":", "A", "9">>)>>]

StartWith(sheet) ==
    /\ menu = {}
    /\ outputSheet = sheet
    /\ alert = ""
    /\ calls = <<>>

(***************************************************************************)
(* Spec: candidates and summary rows, questions that repeat with equal,    *)
(* different and missing max marks.                                        *)
(***************************************************************************)
MainFirstCells == {Str(tS1), Str(tMaxMarksRow)}

MainChoices ==
    {<<Str(tQ1), Num(10)>>, <<Str(tQ1), Num(20)>>, <<Str(tQ1), Blank>>,
     <<Str(tQ2), Num(5)>>, <<Blank, Blank>>}

Init ==
    /\ StartWith(NoSheet)
    /\ IsTable(sourceData, MainFirstCells, MainChoices)

Spec == Init /\ [][Next]_vars

(***************************************************************************)
(* SpecIds: identifiers that are texts, numbers, the number 0, blank and   *)
(* white space.                                                            *)
(***************************************************************************)
IdChoices ==
    {<<Str(tQ1), Num(10)>>, <<Str(tQ2), Num(5)>>, <<Num(1), Num(4)>>,
     <<Str(tOne), Num(6)>>, <<Num(0), Num(8)>>, <<Str(tSpace), Num(2)>>,
     <<Blank, Blank>>}

InitIds ==
    /\ StartWith(NoSheet)
    /\ IsTable(sourceData, {Str(tS1)}, IdChoices)

SpecIds == InitIds /\ [][Next]_vars

(***************************************************************************)
(* SpecSkip: first cells that are names, numbers, blank, white space and   *)
(* summary captions.                                                       *)
(***************************************************************************)
SkipFirstCells ==
    {Str(tS1), Num(0), Blank, Str(tSpace), Str(tMaxMarksRow), Str(tTotalMaxMarks)}

SkipChoices == {<<Str(tQ1), Num(10)>>, <<Str(tQ2), Num(5)>>}

InitSkip ==
    /\ StartWith(NoSheet)
    /\ IsTable(sourceData, SkipFirstCells, SkipChoices)

SpecSkip == InitSkip /\ [][Next]_vars

(***************************************************************************)
(* SpecLayout: header rows of 1..MaxColumns cells, with or without a data  *)
(* row, and an output sheet that may exist already.                        *)
(***************************************************************************)
LayoutHeaderCells ==
    {Str(tID), Str(tQuestionNum), Str(tPaddedQuestionNum), Str(tMark)}

\* a data row of the given width: a candidate row or an empty row
LayoutRows(width) ==
    {[k \in 1..width |-> IF k = 1 THEN Str(tQ1) ELSE Num(k)],
     [k \in 1..width |-> Blank]}

InitLayout ==
    /\ \E sheet \in {NoSheet, StaleSheet} : StartWith(sheet)
    /\ \E width \in 1..MaxColumns :
           \E header \in [1..width -> LayoutHeaderCells] :
               \/ sourceData = <<header>>
               \/ \E row \in LayoutRows(width) : sourceData = <<header, row>>

SpecLayout == InitLayout /\ [][Next]_vars

(***************************************************************************)
(* SpecFormat: one candidate, max marks that are positive, zero, negative, *)
(* blank and texts.                                                        *)
(***************************************************************************)
FormatMaxMarks ==
    {Num(10), Num(5), Num(0), Num(-2), Blank, Str(tNA), Str(t5x), Str(tTen)}

FormatIds == <<Str(tQ1), Str(tQ2), Str(tQ3), Num(1)>>

InitFormat ==
    /\ StartWith(NoSheet)
    /\ \E triplets \in 1..MaxTriplets :
           \E maxMarks \in [1..triplets -> FormatMaxMarks] :
               sourceData =
                   Table(<<Str(tS1)>>,
                         <<[t \in 1..triplets |-> <<FormatIds[t], maxMarks[t]>>]>>)

SpecFormat == InitFormat /\ [][Next]_vars

(***************************************************************************)
(* What the claims speak of, read off the source table and the written     *)
(* output sheet.                                                           *)
(***************************************************************************)
Ran == alert # ""
Done == alert = AlertComplete

SourceHeader == sourceData[1]
Written == outputSheet.values

IsQuestionNumHeader(cell) == ToLowerCase(Trim(toString(cell))) = sQuestionNum

HasQuestionNumHeader ==
    \E k \in 1..Len(SourceHeader) : IsQuestionNumHeader(SourceHeader[k])

\* the number of columns before the first QuestionNum header
FixedCount ==
    CHOOSE n \in 0..(Len(SourceHeader) - 1) :
        /\ IsQuestionNumHeader(SourceHeader[n + 1])
        /\ \A k \in 1..n : ~IsQuestionNumHeader(SourceHeader[k])

TripletsPerRow == (Len(SourceHeader) - FixedCount) \div 3

DataRowNumbers == 2..Len(sourceData)

\* the data rows the skip predicate keeps
Retained == {r \in DataRowNumbers : ~SkipRow(sourceData[r])}

QuestionIdAt(r, t) == sourceData[r][FixedCount + 3 * (t - 1) + 1]
MarkOfTriplet(r, t) == sourceData[r][FixedCount + 3 * (t - 1) + 2]
MaxMarkAt(r, t) == sourceData[r][FixedCount + 3 * (t - 1) + 3]

\* the (row, triplet) pairs of the retained rows, and their scan order
Positions == Retained \X (1..TripletsPerRow)
ScannedBefore(p, q) == p[1] < q[1] \/ (p[1] = q[1] /\ p[2] < q[2])

\* identifiers are compared as texts: the spec's catalog is keyed by string
SameIdentifier(a, b) == toString(a) = toString(b)

\* the spec's blank identifier: empty after conversion to text and trimming
NonBlankIdentifier(id) == Trim(toString(id)) # <<>>

PositionsOf(q) == {p \in Positions : SameIdentifier(QuestionIdAt(p[1], p[2]), q)}

FirstPositionOf(q) ==
    CHOOSE p \in PositionsOf(q) :
        \A p2 \in PositionsOf(q) : p2 = p \/ ScannedBefore(p, p2)

\* the identifiers of output header row 0, after the fixed headers
HeaderIds == SubSeq(Written[1], FixedCount + 1, Len(Written[1]))
QuestionColumns == 1..Len(HeaderIds)

\* the row of the output table that holds retained source row r
OutputRowNumber(r) == 2 + Cardinality({r2 \in Retained : r2 <= r})

\* the triplets of source row r that carry identifier q
Carrying(r, q) == {t \in 1..TripletsPerRow : SameIdentifier(QuestionIdAt(r, t), q)}

Largest(S) == CHOOSE x \in S : \A y \in S : y <= x

WellShaped ==
    /\ Len(Written) = 2 + Cardinality(Retained)
    /\ \A i \in 1..Len(Written) : Len(Written[i]) = Len(Written[1])
    /\ Len(Written[1]) >= FixedCount

(***************************************************************************)
(* C1 (as claimed): the identifiers of output header row 0 are exactly the *)
(* distinct non-blank identifiers of the retained rows, each once, in the  *)
(* order of their first appearance in the (row, triplet) scan.             *)
(***************************************************************************)
C1_HeaderIsFirstAppearanceOrder ==
    Done =>
        /\ \A k \in QuestionColumns :
               /\ NonBlankIdentifier(HeaderIds[k])
               /\ \E p \in Positions : QuestionIdAt(p[1], p[2]) = HeaderIds[k]
        /\ \A p \in Positions :
               NonBlankIdentifier(QuestionIdAt(p[1], p[2]))
                   => \E k \in QuestionColumns :
                          SameIdentifier(HeaderIds[k], QuestionIdAt(p[1], p[2]))
        /\ \A j, k \in QuestionColumns :
               j < k =>
                   /\ ~SameIdentifier(HeaderIds[j], HeaderIds[k])
                   /\ ScannedBefore(FirstPositionOf(HeaderIds[j]),
                                    FirstPositionOf(HeaderIds[k]))

(***************************************************************************)
(* C2: the value of output header row 1 in the column of identifier q is   *)
(* the maxMark cell of the first (row, triplet) of the scan over retained  *)
(* rows whose questionId is q, whatever later triplets with q carry.       *)
(***************************************************************************)
C2_FirstMaxMarkWins ==
    Done =>
        /\ WellShaped
        /\ \A k \in QuestionColumns :
               /\ PositionsOf(HeaderIds[k]) # {}
               /\ LET first == FirstPositionOf(HeaderIds[k])
                  IN  Written[2][FixedCount + k] = MaxMarkAt(first[1], first[2])

C2_Witness ==
    /\ Done
    /\ \E k \in QuestionColumns :
           \E p \in PositionsOf(HeaderIds[k]) :
               LET first == FirstPositionOf(HeaderIds[k])
               IN  /\ p[1] > first[1]
                   /\ MaxMarkAt(p[1], p[2]) # MaxMarkAt(first[1], first[2])
                   /\ MaxMarkAt(p[1], p[2]) # Blank
                   /\ MaxMarkAt(first[1], first[2]) # Blank

(***************************************************************************)
(* C3 (as claimed): when no data row survives the skip predicate the run   *)
(* ends with the "No valid data rows found" alert and the output sheet is  *)
(* neither created, cleared nor written.                                   *)
(***************************************************************************)
C3_EmptyResultLeavesDestination ==
    (Ran /\ Len(sourceData) >= 2 /\ HasQuestionNumHeader /\ Retained = {})
        => /\ alert = AlertNoRows
           /\ calls = <<>>
           /\ ~outputSheet.exists

(***************************************************************************)
(* C4: a run on a source with fewer than 2 rows, with no header cell that  *)
(* is "questionnum" after trimming and lowercasing, or with a number of    *)
(* columns from that header on that is not a positive multiple of 3, ends  *)
(* with one of the three layout alerts and performs no operation on the    *)
(* output sheet.                                                           *)
(***************************************************************************)
BadLayout ==
    \/ Len(sourceData) < 2
    \/ ~HasQuestionNumHeader
    \/ ~(/\ Len(SourceHeader) - FixedCount > 0
         /\ (Len(SourceHeader) - FixedCount) % 3 = 0)

LayoutAlerts == {AlertNotEnough, AlertNoQuestionNum, AlertNotMultiple}

C4_BadLayoutLeavesDestination ==
    [][BadLayout =>
          /\ outputSheet' = outputSheet
          /\ calls' = <<>>
          /\ MenuItem \in menu => alert' \in LayoutAlerts]_vars

C4_Witness ==
    /\ alert = AlertNotMultiple
    /\ outputSheet = StaleSheet
    /\ Len(sourceData) = 2

(***************************************************************************)
(* C5: a data row is left out of the catalog scan and of the output rows   *)
(* exactly when its first cell, trimmed and lowercased, is empty or        *)
(* contains "max marks"; every other data row gives one output row, in     *)
(* source order, and no identifier of the catalog comes from a row that    *)
(* was left out.                                                           *)
(***************************************************************************)
\* the first cells of SpecSkip that are empty or contain "max marks" once
\* trimmed and lowercased: "", " ", "Max marks", "Total MAX marks:"
SummaryFirstCells == {Blank, Str(tSpace), Str(tMaxMarksRow), Str(tTotalMaxMarks)}

Kept == {r \in DataRowNumbers : sourceData[r][1] \notin SummaryFirstCells}

KeptRowNumber(r) == 2 + Cardinality({r2 \in Kept : r2 <= r})

C5_SkipPredicate ==
    Done =>
        /\ Len(Written) = 2 + Cardinality(Kept)
        /\ \A r \in Kept :
               LET out == Written[KeptRowNumber(r)]
               IN  /\ SubSeq(out, 1, FixedCount) = SubSeq(sourceData[r], 1, FixedCount)
                   /\ \E k \in QuestionColumns :
                          out[FixedCount + k] = MarkOfTriplet(r, TripletsPerRow)
                   /\ \A k \in QuestionColumns :
                          \/ out[FixedCount + k] = Blank
                          \/ \E t \in 1..TripletsPerRow :
                                 out[FixedCount + k] = MarkOfTriplet(r, t)
        /\ \A k \in QuestionColumns :
               \E r \in Kept, t \in 1..TripletsPerRow :
                   QuestionIdAt(r, t) = HeaderIds[k]

C5_Witness ==
    /\ Done
    /\ \E r \in DataRowNumbers \ Kept :
           /\ sourceData[r][1] = Str(tTotalMaxMarks)
           /\ \E r2 \in Kept : r2 > r
           /\ \E r2 \in Kept : r2 < r
           /\ \E t \in 1..TripletsPerRow :
                  \A k \in QuestionColumns : HeaderIds[k] # QuestionIdAt(r, t)

(***************************************************************************)
(* C6: in the output row of a retained row the fixed-column values come    *)
(* first, unchanged and in order, and the cell in the column of catalog    *)
(* identifier q is the mark of a triplet of that row whose questionId is   *)
(* q, or the empty string when no triplet of the row carries q.            *)
(***************************************************************************)
C6_MarksAndBlankFill ==
    Done =>
        /\ WellShaped
        /\ \A r \in Retained :
               LET out == Written[OutputRowNumber(r)]
               IN  /\ SubSeq(out, 1, FixedCount) = SubSeq(sourceData[r], 1, FixedCount)
                   /\ \A k \in QuestionColumns :
                          IF Carrying(r, HeaderIds[k]) = {}
                          THEN out[FixedCount + k] = Blank
                          ELSE \E t \in Carrying(r, HeaderIds[k]) :
                                   out[FixedCount + k] = MarkOfTriplet(r, t)

C6_Witness ==
    /\ Done
    /\ \E r \in Retained :
           /\ \E k \in QuestionColumns :
                  /\ Carrying(r, HeaderIds[k]) = {}
                  /\ Written[OutputRowNumber(r)][FixedCount + k] = Blank
           /\ \E k \in QuestionColumns :
                  /\ Carrying(r, HeaderIds[k]) # {}
                  /\ HeaderIds[k] = Num(1)
                  /\ \E t \in Carrying(r, HeaderIds[k]) : QuestionIdAt(r, t) = Str(tOne)

(***************************************************************************)
(* C7: every row of the output table, the two header rows and every data   *)
(* row, has fixedCount + |catalog| cells, however many triplets of the     *)
(* source row were populated and however many identifiers it carried.      *)
(***************************************************************************)
\* the identifiers the catalog holds
CatalogKeys == {toString(HeaderIds[k]) : k \in QuestionColumns}

C7_RowLength ==
    Done =>
        /\ Len(Written) >= 2
        /\ \A i \in 1..Len(Written) :
               Len(Written[i]) = FixedCount + Cardinality(CatalogKeys)

C7_Witness ==
    /\ Done
    /\ Cardinality(CatalogKeys) >= 3
    /\ \E r \in Retained :
           /\ Carrying(r, HeaderIds[1]) # {}
           /\ Carrying(r, HeaderIds[2]) = {}
           /\ Carrying(r, HeaderIds[3]) # {}
           /\ Len(Written[OutputRowNumber(r)]) = FixedCount + 3

(***************************************************************************)
(* C8 (as claimed): a question column whose header-row-2 max mark M is a   *)
(* number greater than 0 gets a gradient rule with stops (0, M/2, M) and a *)
(* text-equals-"N" rule on the same range; a column whose max mark is      *)
(* non-numeric or <= 0 gets no rule.                                       *)
(***************************************************************************)
\* a text that is a decimal numeral, an optional sign and digits only
IsNumeral(s) ==
    LET body == IF s # <<>> /\ Head(s) = "-" THEN Tail(s) ELSE s
    IN  body # <<>> /\ \A k \in 1..Len(body) : IsDigit(body[k])

\* the cell holds a number, or a text that is a numeral once trimmed
IsNumeric(v) == v.t = "number" \/ IsNumeral(Trim(v.s))

NumericValue(v) ==
    IF v.t = "number" THEN v.n
    ELSE IF Head(Trim(v.s)) = "-" THEN -ParseDigits(Tail(Trim(v.s)), 0)
    ELSE ParseDigits(Trim(v.s), 0)

\* the rules whose range lies in output column c
RulesOfColumn(c) ==
    {i \in 1..Len(outputSheet.rules) :
        outputSheet.rules[i].range[1] = UpperCaseLetters[c]}

\* text is the decimal form of m / 2
IsHalfOf(text, m) ==
    \/ m % 2 = 0 /\ text = NatToString(m \div 2)
    \/ m % 2 = 1 /\ text = NatToString((m - 1) \div 2) \o <<".", "5">>

C8_GradientDomain ==
    Done =>
        \A k \in QuestionColumns :
            LET M == Written[2][FixedCount + k]
                mine == RulesOfColumn(FixedCount + k)
            IN  IF IsNumeric(M) /\ NumericValue(M) > 0
                THEN /\ Cardinality(mine) = 2
                     /\ \E i, j \in mine :
                            /\ outputSheet.rules[i].type = "gradient"
                            /\ outputSheet.rules[i].minValue = <<"0">>
                            /\ IsHalfOf(outputSheet.rules[i].midValue, NumericValue(M))
                            /\ outputSheet.rules[i].maxValue = NatToString(NumericValue(M))
                            /\ outputSheet.rules[j].type = "textEqualTo"
                            /\ outputSheet.rules[j].text = <<"N">>
                            /\ outputSheet.rules[j].range = outputSheet.rules[i].range
                ELSE mine = {}

(***************************************************************************)
(* C9 (as claimed): a triplet is skipped exactly when its questionId,      *)
(* converted to text and trimmed, is the empty string; every other         *)
(* triplet of a retained row, one whose questionId is the number 0         *)
(* included, has its identifier in the catalog and its mark, or that of a  *)
(* later triplet of the row with the same identifier, in the output row.   *)
(***************************************************************************)
C9_BlankMeansTrimmedEmpty ==
    Done =>
        \A p \in Positions :
            LET id == QuestionIdAt(p[1], p[2])
            IN  NonBlankIdentifier(id)
                <=> \E k \in QuestionColumns :
                        /\ SameIdentifier(HeaderIds[k], id)
                        /\ \E t \in Carrying(p[1], id) :
                               Written[OutputRowNumber(p[1])][FixedCount + k]
                                   = MarkOfTriplet(p[1], t)

(***************************************************************************)
(* C10: when a retained row carries one identifier in more than one        *)
(* triplet, the output cell of that identifier is the mark of the last     *)
(* such triplet, the catalog max mark is that of the first triplet of the  *)
(* scan with the identifier, and the identifier has one output column.     *)
(***************************************************************************)
C10_LastMarkFirstMaxMark ==
    Done =>
        /\ WellShaped
        /\ \A r \in Retained, k \in QuestionColumns :
               Cardinality(Carrying(r, HeaderIds[k])) > 1
                   => /\ Written[OutputRowNumber(r)][FixedCount + k]
                             = MarkOfTriplet(r, Largest(Carrying(r, HeaderIds[k])))
                      /\ LET first == FirstPositionOf(HeaderIds[k])
                         IN  Written[2][FixedCount + k] = MaxMarkAt(first[1], first[2])
                      /\ \A j \in QuestionColumns :
                             SameIdentifier(HeaderIds[j], HeaderIds[k]) => j = k

C10_Witness ==
    /\ Done
    /\ \E r \in Retained, k \in QuestionColumns :
           \E t1, t2 \in Carrying(r, HeaderIds[k]) :
               /\ t1 < t2
               /\ FirstPositionOf(HeaderIds[k]) = <<r, t1>>
               /\ MaxMarkAt(r, t1) # MaxMarkAt(r, t2)
               /\ MaxMarkAt(r, t2) # Blank

====
